---------------------------- MODULE Spec2Model ----------------------------
(***************************************************************************)
(* Model of fbpic/hankel_dt.py: the DHT object (Discrete Hankel Transform) *)
(* with its constructor, the QDHT / MDHT / FHT initialisation routines,    *)
(* the transform and inverse_transform dispatch, and array_multiply.       *)
(*                                                                         *)
(* Numbers.  numpy floats are modelled as exact rationals <<n, d>> with    *)
(* d > 0 and gcd(n, d) = 1; inf (the result of a float division by zero)   *)
(* is <<1, 0>>.  A vector is a sequence of rationals, a matrix a sequence  *)
(* of rows.  An ndarray is a record [shape, data] where data holds the     *)
(* rows along the last axis in C order (one row per index of the leading   *)
(* axes).                                                                  *)
(*                                                                         *)
(* scipy.special.jn and jn_zeros are outside the repository.  jn_zeros is  *)
(* modelled by McMahon's leading term, jn at 0 and at a zero of the same   *)
(* order exactly, and jn at any other argument by a sample table selected  *)
(* by the state variable `seed'.                                           *)
(***************************************************************************)
EXTENDS Integers, Sequences, FiniteSets, TLC

VARIABLES
    cuda_installed, \* module-level flag set by the import of cudablas
    seed,           \* which sample table stands for scipy.special.jn
    args,           \* the arguments the constructor is called with
    phase,          \* "new", "constructed" or "raised" (constructor outcome)
    error,          \* the exception the constructor raised, or "none"
    self,           \* the instance attributes: attribute name -> value
    stream,         \* device work of self.cuda_stream: sequence of pending calls
    calls           \* per caller: the call in progress / last finished call

vars == <<cuda_installed, seed, args, phase, error, self, stream, calls>>

---------------------------------------------------------------------------
(* Bounds of the model *)

MaxN == 2
MaxP == 2
MaxRank == 2
NumThreads == 2

---------------------------------------------------------------------------
(* Exact rational arithmetic standing for numpy's float64 arithmetic *)

Abs(x) == IF x < 0 THEN -x ELSE x

RECURSIVE Gcd(_, _)
Gcd(a, b) == IF b = 0 THEN a ELSE Gcd(b, a % b)

Rat(n, d) ==
    IF d = 0 THEN <<(IF n = 0 THEN 0 ELSE 1), 0>>
    ELSE LET g == Gcd(Abs(n), Abs(d))
             s == IF d < 0 THEN -1 ELSE 1
         IN  <<s * (n \div g), s * (d \div g)>>

Zero == <<0, 1>>
One == <<1, 1>>
Inf == <<1, 0>>
NaN == <<0, 0>>

IsFinite(x) == x[2] # 0

RMul(x, y) ==
    IF ~IsFinite(x) \/ ~IsFinite(y)
    THEN (IF x[1] = 0 \/ y[1] = 0 THEN NaN ELSE Inf)
    ELSE LET g1 == Gcd(Abs(x[1]), y[2])
             g2 == Gcd(Abs(y[1]), x[2])
         IN  <<(x[1] \div g1) * (y[1] \div g2), (x[2] \div g2) * (y[2] \div g1)>>

\* numpy float division: x/0 is inf (nan for 0/0) with a warning, no exception
RDiv(x, y) ==
    IF ~IsFinite(x) \/ ~IsFinite(y)
    THEN (IF IsFinite(x) /\ y = Inf THEN Zero ELSE IF IsFinite(y) /\ x = Inf THEN Inf ELSE NaN)
    ELSE IF y[1] = 0 THEN (IF x[1] = 0 THEN NaN ELSE Inf)
    ELSE RMul(x, Rat(y[2], y[1]))

RAdd(x, y) ==
    IF ~IsFinite(x) \/ ~IsFinite(y)
    THEN (IF x = NaN \/ y = NaN THEN NaN ELSE Inf)
    ELSE LET g == Gcd(x[2], y[2])
         IN  Rat(x[1] * (y[2] \div g) + y[1] * (x[2] \div g), (x[2] \div g) * y[2])

RNeg(x) == <<-x[1], x[2]>>
RSub(x, y) == RAdd(x, RNeg(y))
RAbs(x) == <<Abs(x[1]), x[2]>>
RInt(n) == <<n, 1>>

RECURSIVE RSum(_)
RSum(s) == IF s = <<>> THEN Zero ELSE RAdd(Head(s), RSum(Tail(s)))

\* np.pi is a float64; the model carries the rational 22/7 in its place
Pi == Rat(22, 7)


\* np.sqrt of a float: the exact root rounded down to a multiple of 1/8
RECURSIVE ISqrtIn(_, _, _)
ISqrtIn(n, lo, hi) ==
    IF lo >= hi THEN lo
    ELSE LET mid == (lo + hi + 1) \div 2
         IN  IF mid * mid <= n THEN ISqrtIn(n, mid, hi) ELSE ISqrtIn(n, lo, mid - 1)

RSqrt(x) ==
    IF ~IsFinite(x) THEN x
    ELSE IF x[1] < 0 THEN NaN
    ELSE Rat(ISqrtIn((64 * x[1]) \div x[2], 0, 8 * ((x[1] \div x[2]) + 1)), 8)

---------------------------------------------------------------------------
(* Vectors and matrices: np.dot, np.linalg.inv, .T *)

Range(s) == {s[i] : i \in DOMAIN s}

VecScale(c, v) == [i \in 1..Len(v) |-> RMul(c, v[i])]

\* np.dot(row, A) for a 1-D row: sum over the last axis of row and the rows of A
VecMat(v, A) ==
    [j \in 1..Len(A[1]) |-> RSum([i \in 1..Len(v) |-> RMul(v[i], A[i][j])])]

MatMul(A, B) == [i \in 1..Len(A) |-> VecMat(A[i], B)]

Transpose(A) == [j \in 1..Len(A[1]) |-> [i \in 1..Len(A) |-> A[i][j]]]

Identity(n) == [i \in 1..n |-> [j \in 1..n |-> IF i = j THEN One ELSE Zero]]

ZeroVec(n) == [j \in 1..n |-> Zero]

DropAt(s, k) == [i \in 1..(Len(s) - 1) |-> IF i < k THEN s[i] ELSE s[i + 1]]

Minor(A, i, j) == [r \in 1..(Len(A) - 1) |-> DropAt(DropAt(A, i)[r], j)]

RECURSIVE Det(_)
Det(A) ==
    IF Len(A) = 1 THEN A[1][1]
    ELSE RSum([j \in 1..Len(A) |->
                 RMul((IF j % 2 = 1 THEN One ELSE RInt(-1)),
                      RMul(A[1][j], Det(Minor(A, 1, j))))])

Cofactor(A, i, j) ==
    IF Len(A) = 1 THEN One
    ELSE RMul((IF (i + j) % 2 = 0 THEN One ELSE RInt(-1)), Det(Minor(A, i, j)))

\* np.linalg.inv raises LinAlgError("Singular matrix") on a singular matrix
IsSingular(A) == Det(A) = Zero

LinalgInv(A) ==
    LET dt == Det(A)
    IN  [i \in 1..Len(A) |-> [j \in 1..Len(A) |-> RDiv(Cofactor(A, j, i), dt)]]

---------------------------------------------------------------------------
(* scipy.special.jn_zeros and jn *)

\* jn_zeros(n, nt): the first nt positive zeros of J_|n|
\* (McMahon's leading term (4k + 2|n| - 1) pi / 4 stands for the k-th zero)
JnZeros(n, nt) == [k \in 1..nt |-> RMul(Rat(4 * k + 2 * Abs(n) - 1, 4), Pi)]

IsZeroOf(k, x) ==
    \E j \in 1..(MaxN + 2) : x = RMul(Rat(4 * j + 2 * Abs(k) - 1, 4), Pi)

SampleVals ==
    <<Rat(-1, 1), Rat(1, 8), Rat(1, 1), Rat(-1, 4), Rat(1, 2), Rat(1, 4), Rat(-1, 2)>>

\* The value table sd gives for J_k(x): a nonzero entry of SampleVals
Sample(sd, k, x) ==
    SampleVals[((sd + 2 * Abs(k) + 3 * Abs(x[1]) + 5 * x[2] + Abs(x[1]) * x[2])
                 % Len(SampleVals)) + 1]

\* jn(k, x): J_k(0) = 1 if k = 0 else 0; J_k vanishes at its own zeros;
\* any other value is read from the sample table
Jn(sd, k, x) ==
    IF ~IsFinite(x) THEN NaN
    ELSE IF x = Zero THEN (IF k = 0 THEN One ELSE Zero)
    ELSE IF IsZeroOf(k, x) THEN Zero
    ELSE Sample(sd, k, x)

RSq(x) == RMul(x, x)

---------------------------------------------------------------------------
(* Module level: the list of available methods *)

available_methods == {"QDHT", "MDHT(m+1,m)", "MDHT(m-1,m)", "MDHT(m,m)"}

MDHT_methods == {"MDHT(m,m)", "MDHT(m-1,m)", "MDHT(m+1,m)"}

\* Python's None for the keyword d (no rational has a negative denominator)
None == <<0, -1>>

\* The result of a routine: the exception it raised ("none" if it returned)
\* and the attributes it assigned on self up to that point
Done(attrs) == [err |-> "none", attrs |-> attrs]
Raise(e, attrs) == [err |-> e, attrs |-> attrs]

\* attrs with attribute a (re)assigned to v
Set(attrs, a, v) ==
    [x \in (DOMAIN attrs) \cup {a} |-> IF x = a THEN v ELSE attrs[x]]

\* attrs after the assignments kvs = << <<name, value>>, ... >>, in that order
RECURSIVE SetAll(_, _)
SetAll(attrs, kvs) ==
    IF Len(kvs) = 0 THEN attrs
    ELSE SetAll(Set(attrs, Head(kvs)[1], Head(kvs)[2]), Tail(kvs))

NoAttrs == [a \in {} |-> 0]

---------------------------------------------------------------------------
(* DHT.MDHT_init *)

\* include_0 = [-1,1] ; `m in include_0'
include_0 == {-1, 1}

\* A faulty sequence: 0 is never put in front
MDHT_zeros_Positive(m, N) == JnZeros(m, N + 1)

\* zeros: 0 followed by the N first zeros if m is in include_0,
\* the N+1 first zeros otherwise
MDHT_zeros(m, N) ==
    IF m \in include_0 THEN <<Zero>> \o JnZeros(m, N) ELSE JnZeros(m, N + 1)

MDHT_nu(rmax, alphas) ==
    [i \in 1..Len(alphas) |-> RMul(RDiv(One, RMul(RInt(2), RMul(Pi, rmax))), alphas[i])]

\* S from Kai-Ming et al. (the branch d is None, m != p)
MDHT_S_KaiMing(sd, m, N, alphas) ==
    LET k == N \div 4
        A == alphas[k + 1]
        J == JnZeros(m, N)[N]
        terms == [i \in 1..(N - 1) |->
                    RDiv(RSq(Jn(sd, m - 1, RDiv(RMul(A, alphas[i + 1]), J))),
                         RSq(Jn(sd, m - 1, alphas[i + 1])))]
    IN  RMul(RAbs(RDiv(RInt(2), Jn(sd, m - 1, alphas[k + 1]))),
             RSqrt(RAdd(One, RSum(terms))))

MDHT_S(sd, p, N, m, d, zeros) ==
    IF d # None THEN zeros[N + 1]
    ELSE IF m = p THEN zeros[N + 1]
    ELSE MDHT_S_KaiMing(sd, m, N, SubSeq(zeros, 1, N))

MDHT_r(N, rmax, d, alphas, S) ==
    IF d # None
    THEN [n \in 1..N |-> RMul(RDiv(rmax, RInt(N)), RAdd(RInt(n - 1), d))]
    ELSE [n \in 1..N |-> RDiv(RMul(rmax, alphas[n]), S)]

\* p_denom = p ; if p == m : p_denom = m+1
P_denom(p, m) == IF p = m THEN m + 1 ELSE p

MDHT_denom(sd, p, m, rmax, alphas) ==
    [i \in 1..Len(alphas) |->
        RMul(RMul(Pi, RSq(rmax)), RSq(Jn(sd, P_denom(p, m), alphas[i])))]

MDHT_num(sd, p, r, nu) ==
    [i \in 1..Len(nu) |-> [j \in 1..Len(r) |->
        Jn(sd, p, RMul(RMul(RInt(2), Pi), RMul(r[j], nu[i])))]]

\* if denom[0] == 0 and np.all(num[0,:] == 0) : denom[0] = 1
GuardDenom(denom, num) ==
    IF denom[1] = Zero /\ \A j \in 1..Len(num[1]) : num[1][j] = Zero
    THEN [denom EXCEPT ![1] = One]
    ELSE denom

\* num / denom[ :, np.newaxis ]
RowDivide(num, denom) ==
    [i \in 1..Len(num) |-> [j \in 1..Len(num[i]) |-> RDiv(num[i][j], denom[i])]]

\* A faulty condition: `and p != 0' is missing
RowCorrection_AnyOrder(p, m) == m \in include_0

\* `if m in include_0 and p != 0': the first row of invM is replaced
\* before the inversion and put back to 0 after it
RowCorrection(p, m) == m \in include_0 /\ p # 0

\* The matrix handed to np.linalg.inv
MDHT_to_invert(sd, p, m, rmax, r, zeros, denom, num) ==
    IF RowCorrection(p, m)
    THEN LET N == Len(r)
             last_alpha == zeros[N + 1]
             nu_additional == RMul(RDiv(One, RMul(RInt(2), RMul(Pi, rmax))), last_alpha)
             denom2 == [denom EXCEPT ![1] =
                          RMul(RMul(Pi, RSq(rmax)), RSq(Jn(sd, P_denom(p, m), last_alpha)))]
             num2 == [num EXCEPT ![1] =
                          [j \in 1..N |->
                              Jn(sd, p, RMul(RMul(RInt(2), Pi), RMul(r[j], nu_additional)))]]
         IN  RowDivide(num2, denom2)
    ELSE RowDivide(num, denom)

\* A faulty branch: the first row is put to 0 whether or not it was replaced
MDHT_invM_final_Unconditional(p, m, toInvert) ==
    [toInvert EXCEPT ![1] = ZeroVec(Len(toInvert[1]))]

\* self.invM as left by the Fw == 'inverse' branch
MDHT_invM_final(p, m, toInvert) ==
    IF RowCorrection(p, m)
    THEN [toInvert EXCEPT ![1] = ZeroVec(Len(toInvert[1]))]
    ELSE toInvert

\* self.M = (2*np.pi*rmax**2/S)**2 * self.invM.T
MDHT_M_symmetric(rmax, S, invM) ==
    LET c == RSq(RDiv(RMul(RMul(RInt(2), Pi), RSq(rmax)), S))
    IN  [i \in 1..Len(invM) |-> VecScale(c, Transpose(invM)[i])]

\* The `Calculate the matrix M' part: Fw == 'inverse', Fw == 'symmetric',
\* and any other Fw, for which neither `if' is taken
MDHT_forward(sd, p, m, rmax, Fw, r, zeros, S, denom, num, a0) ==
    IF Fw = "inverse"
    THEN LET A == MDHT_to_invert(sd, p, m, rmax, r, zeros, denom, num)
             a1 == Set(a0, "invM", A)
         IN  IF IsSingular(A) THEN Raise("LinAlgError", a1)
             ELSE Done(Set(Set(a1, "M", LinalgInv(A)), "invM", MDHT_invM_final(p, m, A)))
    ELSE IF Fw = "symmetric"
    THEN Done(Set(a0, "M", MDHT_M_symmetric(rmax, S, a0["invM"])))
    ELSE Done(a0)

MDHT_init(sd, attrs, p, N, rmax, m, d, Fw) ==
    IF m \notin {p - 1, p, p + 1} THEN Raise("ValueError", attrs)
    ELSE
    LET zeros == MDHT_zeros(m, N)
        alphas == SubSeq(zeros, 1, N)
        nu == MDHT_nu(rmax, alphas)
        S == MDHT_S(sd, p, N, m, d, zeros)
        r == MDHT_r(N, rmax, d, alphas, S)
        denom0 == MDHT_denom(sd, p, m, rmax, alphas)
        num == MDHT_num(sd, p, r, nu)
        denom == GuardDenom(denom0, num)
        a0 == SetAll(attrs, << <<"d", d>>, <<"Fw", Fw>>, <<"p", p>>, <<"m", m>>,
                               <<"N", N>>, <<"rmax", rmax>>, <<"nu", nu>>, <<"r", r>>,
                               <<"invM", RowDivide(num, denom)>> >>)
    IN  MDHT_forward(sd, p, m, rmax, Fw, r, zeros, S, denom, num, a0)

---------------------------------------------------------------------------
(* DHT.QDHT_init *)

QDHT_init(sd, attrs, p, N, rmax) ==
    LET zeros == JnZeros(p, N + 1)
        last_alpha == zeros[N + 1]
        alphas == SubSeq(zeros, 1, N)
        numax == RDiv(last_alpha, RMul(RInt(2), RMul(Pi, rmax)))
        J == [i \in 1..N |-> RAbs(Jn(sd, p + 1, alphas[i]))]
        T == [i \in 1..N |-> [j \in 1..N |->
                RDiv(RMul(RInt(2), Jn(sd, p, RDiv(RMul(alphas[i], alphas[j]), last_alpha))),
                     RMul(RMul(J[i], J[j]), last_alpha))]]
    IN  Done(SetAll(attrs, <<
             <<"N", N>>, <<"rmax", rmax>>, <<"numax", numax>>,
             <<"r", [i \in 1..N |-> RDiv(RMul(rmax, alphas[i]), last_alpha)]>>,
             <<"nu", [i \in 1..N |-> RDiv(RMul(numax, alphas[i]), last_alpha)]>>,
             <<"J", J>>, <<"J_inv", [i \in 1..N |-> RDiv(One, J[i])]>>,
             <<"T", T>> >>))

---------------------------------------------------------------------------
(* DHT.FHT_init.  np.exp and np.fft work on irrational and complex values: *)
(* exp(alpha) is carried as a multiple g of 1/8, alpha = ln g as g - 1, and *)
(* the roots of unity of the DFT as a real table with W(0) = 1, W(n/2) = -1 *)

K == 4

RECURSIVE RPow(_, _)
RPow(x, n) == IF n = 0 THEN One ELSE RMul(x, RPow(x, n - 1))

\* fsolve( lambda x : np.exp(x*N)*(1-np.exp(-x)) - 1, x0 = 1. ): with
\* g = exp(x) the equation is g^(N-1) (g - 1) = 1
ExpAlpha(N) ==
    LET ok(k) == LET g == Rat(k, 8)
                 IN  RSub(One, RMul(RPow(g, N - 1), RSub(g, One)))[1] >= 0
    IN  Rat(CHOOSE k \in 8..16 : ok(k) /\ \A l \in 8..16 : ok(l) => l <= k, 8)

Twiddle(n, t) ==
    IF t % n = 0 THEN One
    ELSE IF 2 * (t % n) = n THEN RInt(-1)
    ELSE Sample(0, n, RInt(t % n))

\* np.fft.fft(x, n=n) of one row: the row is cropped or zero-padded to n
FftRow(x, n) ==
    LET xp == [j \in 1..n |-> IF j <= Len(x) THEN x[j] ELSE Zero]
    IN  [k \in 1..n |-> RSum([j \in 1..n |-> RMul(xp[j], Twiddle(n, (j - 1) * (k - 1)))])]

IfftRow(x) ==
    LET n == Len(x)
    IN  [k \in 1..n |->
           RDiv(RSum([j \in 1..n |-> RMul(x[j], Twiddle(n, n * n - (j - 1) * (k - 1)))]),
                RInt(n))]

FHT_init(sd, attrs, p, N, rmax) ==
    LET g == ExpAlpha(N)
        alpha == RSub(g, One)
        dr == RDiv(rmax, RPow(g, N))
        r_nu == [n \in 1..(2 * N) |->
                   RMul(RDiv(dr, RMul(RInt(K), rmax)), RPow(g, n - 1))]
        j_convol == [n \in 1..(2 * N) |->
                   RMul(RMul(RMul(RInt(2), Pi), RMul(alpha, r_nu[n])),
                        Jn(sd, p, RMul(RMul(RInt(2), Pi), r_nu[n])))]
    IN  Done(SetAll(attrs, <<
             <<"N", N>>,
             <<"r", [n \in 1..N |-> RMul(dr, RPow(g, n - 1))]>>,
             <<"nu", [n \in 1..N |->
                        RMul(RDiv(One, RMul(RInt(K), rmax)), RPow(g, n - 1))]>>,
             <<"fft_j_convol", IfftRow(j_convol)>> >>))

---------------------------------------------------------------------------
(* DHT.__init__ *)

\* `if ( method in available_methods ) == False : raise ValueError'
MethodIsValid(method) == method \in available_methods

\* A faulty registration: cuda_installed is not looked at
UseCuda_Unchecked(use_cuda, installed) == use_cuda

\* self.use_cuda after `Register whether to use the GPU'
UseCuda(use_cuda, installed) ==
    IF use_cuda /\ ~installed THEN FALSE ELSE use_cuda

\* The attributes assigned before the initialization routine is called
InitHead(a, installed) ==
    LET uc == UseCuda(a.use_cuda, installed)
        a1 == SetAll(NoAttrs, << <<"method", a.method>>, <<"use_cuda", uc>> >>)
    IN  IF uc THEN Set(a1, "cuda_stream", "Blas") ELSE a1

\* `Call the corresponding initialization routine'
InitDispatch(sd, attrs, a) ==
    IF attrs["method"] = "FHT" THEN FHT_init(sd, attrs, a.p, a.N, a.rmax)
    ELSE IF attrs["method"] = "QDHT" THEN QDHT_init(sd, attrs, a.p, a.N, a.rmax)
    ELSE IF attrs["method"] = "MDHT(m,m)"
    THEN MDHT_init(sd, attrs, a.p, a.N, a.rmax, a.p, a.d, a.Fw)
    ELSE IF attrs["method"] = "MDHT(m-1,m)"
    THEN MDHT_init(sd, attrs, a.p, a.N, a.rmax, a.p + 1, a.d, a.Fw)
    ELSE IF attrs["method"] = "MDHT(m+1,m)"
    THEN MDHT_init(sd, attrs, a.p, a.N, a.rmax, a.p - 1, a.d, a.Fw)
    ELSE Done(attrs)

\* A faulty constructor: the stream is created before the method is checked
DHT_init_StreamFirst(sd, a, installed) ==
    IF ~MethodIsValid(a.method) THEN Raise("ValueError", InitHead(a, installed))
    ELSE InitDispatch(sd, InitHead(a, installed), a)

DHT_init(sd, a, installed) ==
    IF ~MethodIsValid(a.method) THEN Raise("ValueError", NoAttrs)
    ELSE InitDispatch(sd, InitHead(a, installed), a)

---------------------------------------------------------------------------
(* ndarrays: [shape |-> <<d1, ..., dk>>, data |-> the rows along the last axis] *)

Last(s) == s[Len(s)]
Front(s) == SubSeq(s, 1, Len(s) - 1)

RECURSIVE Prod(_)
Prod(s) == IF s = <<>> THEN 1 ELSE Head(s) * Prod(Tail(s))

WithLast(shape, n) == Front(shape) \o <<n>>

EmptyArray == [shape |-> <<>>, data |-> <<>>]

\* r*v of numpy for a 1-D v: the last axis of a and v broadcast when they are
\* equal or one of them is 1
CanBroadcast(a, v) ==
    Last(a.shape) = Len(v) \/ Last(a.shape) = 1 \/ Len(v) = 1

Broadcast(a, v) ==
    LET L == Last(a.shape)
        n == IF L = 1 THEN Len(v) ELSE L
    IN  [shape |-> WithLast(a.shape, n),
         data |-> [i \in 1..Len(a.data) |-> [j \in 1..n |->
                     RMul(a.data[i][IF L = 1 THEN 1 ELSE j],
                          v[IF Len(v) = 1 THEN 1 ELSE j])]]]

\* A faulty product: `r *= v' in place of `r = r*v' writes the operand
array_multiply_InPlace(a, v) ==
    IF ~CanBroadcast(a, v) THEN [err |-> "ValueError", r |-> a, a |-> a]
    ELSE [err |-> "none", r |-> Broadcast(a, v), a |-> Broadcast(a, v)]

\* array_multiply( a, v, -1 ): with axis = -1 neither swapaxes is executed and
\* the body is r = a ; r = r*v ; return(r).  The result is the new array r and
\* the operand a as the call leaves it (r = r*v binds a new array, a is not
\* written).  err is the ValueError of a failed broadcast.
array_multiply(a, v) ==
    IF ~CanBroadcast(a, v) THEN [err |-> "ValueError", r |-> a, a |-> a]
    ELSE [err |-> "none", r |-> Broadcast(a, v), a |-> a]

\* np.dot( F, A ) for an N-D F and a 2-D A: a sum product over the last axis
\* of F and the first axis of A; ValueError when the two lengths differ
np_dot(F, A) ==
    IF Last(F.shape) # Len(A) THEN [err |-> "ValueError", r |-> F]
    ELSE [err |-> "none",
          r |-> [shape |-> WithLast(F.shape, Len(A[1])),
                 data |-> [i \in 1..Len(F.data) |-> VecMat(F.data[i], A)]]]

\* np.fft.fft( a, axis=-1, n=n )
np_fft(a, n) ==
    [shape |-> WithLast(a.shape, n),
     data |-> [i \in 1..Len(a.data) |-> FftRow(a.data[i], n)]]

\* np.split( a, 2, axis=-1 )[0]; ValueError when the last axis is odd
np_split_first(a) ==
    IF Last(a.shape) % 2 # 0 THEN [err |-> "ValueError", r |-> a]
    ELSE [err |-> "none",
          r |-> [shape |-> WithLast(a.shape, Last(a.shape) \div 2),
                 data |-> [i \in 1..Len(a.data) |->
                             SubSeq(a.data[i], 1, Last(a.shape) \div 2)]]]

---------------------------------------------------------------------------
(* The transform routines as statement lists.  A statement is               *)
(* [kind, opd]: kind is the operation applied to the working array of the   *)
(* call, opd the expression over self it reads when it executes.            *)

Stmt(kind, opd) == [kind |-> kind, opd |-> opd]

QDHT_transform ==
    <<Stmt("multiply", "J_inv*rmax"), Stmt("dot", "T"),
      Stmt("multiply", "J/numax"), Stmt("return", "")>>

QDHT_inverse_transform ==
    <<Stmt("multiply", "J_inv*numax"), Stmt("dot", "T"),
      Stmt("multiply", "J/rmax"), Stmt("return", "")>>

\* A faulty routine: the call of self.cuda_stream.synchronize() is missing
MDHT_transform_NoBarrier(attrs) ==
    IF attrs["use_cuda"]
    THEN <<Stmt("cuda_dot", "M"), Stmt("return", "")>>
    ELSE <<Stmt("dot", "M"), Stmt("return", "")>>

MDHT_transform(attrs) ==
    IF attrs["use_cuda"]
    THEN <<Stmt("cuda_dot", "M"), Stmt("synchronize", ""), Stmt("return", "")>>
    ELSE <<Stmt("dot", "M"), Stmt("return", "")>>

MDHT_inverse_transform(attrs) ==
    IF attrs["use_cuda"]
    THEN <<Stmt("cuda_dot", "invM"), Stmt("synchronize", ""), Stmt("return", "")>>
    ELSE <<Stmt("dot", "invM"), Stmt("return", "")>>

FHT_transform ==
    <<Stmt("multiply", "r"), Stmt("fft2N", "N"), Stmt("multiply", "fft_j_convol"),
      Stmt("fft", ""), Stmt("split", ""), Stmt("multiply", "1/nu"), Stmt("return", "")>>

FHT_inverse_transform ==
    <<Stmt("multiply", "nu"), Stmt("fft2N", "N"), Stmt("multiply", "fft_j_convol"),
      Stmt("fft", ""), Stmt("split", ""), Stmt("multiply", "1/r"), Stmt("return", "")>>

\* DHT.transform and DHT.inverse_transform: dispatch on self.method
\* (with no branch taken, `return( G )' raises UnboundLocalError)
transform(attrs) ==
    IF attrs["method"] = "FHT" THEN FHT_transform
    ELSE IF attrs["method"] = "QDHT" THEN QDHT_transform
    ELSE IF attrs["method"] \in MDHT_methods THEN MDHT_transform(attrs)
    ELSE <<Stmt("unbound", "")>>

inverse_transform(attrs) ==
    IF attrs["method"] = "FHT" THEN FHT_inverse_transform
    ELSE IF attrs["method"] = "QDHT" THEN QDHT_inverse_transform
    ELSE IF attrs["method"] \in MDHT_methods THEN MDHT_inverse_transform(attrs)
    ELSE <<Stmt("unbound", "")>>

\* The attributes of self an operand expression reads
Needs(opd) ==
    CASE opd = "J_inv*rmax" -> {"J_inv", "rmax"}
      [] opd = "J/numax" -> {"J", "numax"}
      [] opd = "J_inv*numax" -> {"J_inv", "numax"}
      [] opd = "J/rmax" -> {"J", "rmax"}
      [] opd = "1/nu" -> {"nu"}
      [] opd = "1/r" -> {"r"}
      [] opd = "" -> {}
      [] OTHER -> {opd}

VecOver(v, c) == [i \in 1..Len(v) |-> RDiv(v[i], c)]
VecInv(v) == [i \in 1..Len(v) |-> RDiv(One, v[i])]

Operand(attrs, opd) ==
    CASE opd = "J_inv*rmax" -> VecScale(attrs["rmax"], attrs["J_inv"])
      [] opd = "J/numax" -> VecOver(attrs["J"], attrs["numax"])
      [] opd = "J_inv*numax" -> VecScale(attrs["numax"], attrs["J_inv"])
      [] opd = "J/rmax" -> VecOver(attrs["J"], attrs["rmax"])
      [] opd = "1/nu" -> VecInv(attrs["nu"])
      [] opd = "1/r" -> VecInv(attrs["r"])
      [] OTHER -> attrs[opd]

---------------------------------------------------------------------------
(* One call: its frame and the execution of its statements *)

\* The frame of a call of routine op on the caller's array F
NewFrame(op, prog, F) ==
    [op |-> op, st |-> "running", prog |-> prog, pc |-> 1,
     arg0 |-> F,        \* the array as the caller passed it
     arg |-> F,         \* the caller's array now
     x |-> F,           \* the local name F / G of the routine
     alias |-> TRUE,    \* whether x still is the caller's array object
     dev |-> "none",    \* device multiply: "none", "pending" or "complete"
     err |-> "none",
     prev |-> "none",   \* the routine whose result F is ("none": a fresh array)
     orig |-> EmptyArray]  \* the argument of that earlier call

IdleFrame ==
    [NewFrame("none", <<>>, EmptyArray) EXCEPT !.st = "idle"]

Fail(f, e) == [f EXCEPT !.st = "raised", !.err = e]

\* The working array x rebound to the new array r
Rebind(f, r) == [f EXCEPT !.x = r, !.alias = FALSE, !.pc = f.pc + 1]

\* The statement at f.pc executed on frame f with the instance attributes
\* attrs; the result is the new frame and the instance attributes after it
\* A faulty statement: the working array is kept in self.F instead of the
\* local name F
LocalStep_OnSelf(attrs, g) == [frame |-> g, attrs |-> Set(attrs, "F", g.x)]

\* The outcome of a statement of a transform routine: it binds only the
\* local names F and G, the instance is left as it is
LocalStep(attrs, g) == [frame |-> g, attrs |-> attrs]

Exec(attrs, f) ==
    LET s == f.prog[f.pc]
    IN  IF ~(Needs(s.opd) \subseteq DOMAIN attrs) THEN LocalStep(attrs, Fail(f, "AttributeError"))
        ELSE IF s.kind = "multiply"
        THEN LET res == array_multiply(f.x, Operand(attrs, s.opd))
             IN  IF res.err # "none" THEN LocalStep(attrs, Fail(f, res.err))
                 ELSE LocalStep(attrs, [Rebind(f, res.r) EXCEPT
                              !.arg = IF f.alias THEN res.a ELSE f.arg])
        ELSE IF s.kind = "dot"
        THEN LET res == np_dot(f.x, Operand(attrs, s.opd))
             IN  IF res.err # "none" THEN LocalStep(attrs, Fail(f, res.err))
                 ELSE LocalStep(attrs, Rebind(f, res.r))
        ELSE IF s.kind = "cuda_dot"
        THEN LET res == np_dot(f.x, Operand(attrs, s.opd))
             IN  IF res.err # "none" THEN LocalStep(attrs, Fail(f, res.err))
                 ELSE LocalStep(attrs, [f EXCEPT !.dev = "pending", !.pc = f.pc + 1])
        ELSE IF s.kind = "synchronize"
        THEN LocalStep(attrs, [f EXCEPT !.pc = f.pc + 1])
        ELSE IF s.kind = "fft2N"
        THEN LocalStep(attrs, Rebind(f, np_fft(f.x, 2 * attrs["N"])))
        ELSE IF s.kind = "fft"
        THEN LocalStep(attrs, Rebind(f, np_fft(f.x, Last(f.x.shape))))
        ELSE IF s.kind = "split"
        THEN LET res == np_split_first(f.x)
             IN  IF res.err # "none" THEN LocalStep(attrs, Fail(f, res.err))
                 ELSE LocalStep(attrs, Rebind(f, res.r))
        ELSE IF s.kind = "return"
        THEN LocalStep(attrs, [f EXCEPT !.st = "returned"])
        ELSE LocalStep(attrs, Fail(f, "UnboundLocalError"))

\* The device finishes the multiply issued by the statement before f.pc and
\* writes the product into the result array of the call
DeviceFinish(attrs, f) ==
    IF f.dev # "pending" THEN f
    ELSE [f EXCEPT !.x = np_dot(f.x, Operand(attrs, f.prog[f.pc - 1].opd)).r,
                   !.alias = FALSE, !.dev = "complete"]

\* A whole call run with no other caller: every statement in turn, the
\* device finishing its multiply while the call waits in synchronize
RECURSIVE RunAlone(_, _)
RunAlone(attrs, f) ==
    IF f.st # "running" THEN [frame |-> f, attrs |-> attrs]
    ELSE IF f.prog[f.pc].kind = "synchronize" /\ f.dev = "pending"
    THEN RunAlone(attrs, DeviceFinish(attrs, f))
    ELSE LET res == Exec(attrs, f) IN RunAlone(res.attrs, res.frame)

---------------------------------------------------------------------------
(* The arguments and arrays the callers use *)

Threads == 1..NumThreads

Methods == available_methods \cup {"FHT", "bogus"}

FwVals == {"inverse", "symmetric", "other"}

DVals == {Rat(1, 2), None}

RmaxVals == {RInt(2)}

\* The sample tables standing for scipy.special.jn
Seeds == {1, 2}

\* Fw and d reach MDHT_init through **kw; the other routines take no keyword
ArgSpace ==
    {a \in [p : 0..MaxP, N : 1..MaxN, rmax : RmaxVals, method : Methods,
            use_cuda : BOOLEAN, Fw : FwVals, d : DVals] :
        a.method \notin MDHT_methods => (a.Fw = "inverse" /\ a.d = Rat(1, 2))}

RECURSIVE SeqsUpTo(_, _)
SeqsUpTo(S, n) ==
    IF n = 0 THEN {<<>>}
    ELSE LET shorter == SeqsUpTo(S, n - 1)
         IN  shorter \cup {Append(q, e) : q \in {h \in shorter : Len(h) = n - 1}, e \in S}

\* Arrays of rank 1..MaxRank whose leading axes have length 2 and whose
\* last (transform) axis has length 1..MaxN+1
Shapes == {Append(lead, L) : lead \in SeqsUpTo({2}, MaxRank - 1), L \in 1..(MaxN + 1)}

\* The array of the given shape holding 1, 2, 3, ... in C order
Filled(shape) ==
    LET L == Last(shape)
    IN  [shape |-> shape,
         data |-> [i \in 1..Prod(Front(shape)) |-> [j \in 1..L |->
                     RInt((i - 1) * L + j)]]]

FreshArrays == {Filled(sh) : sh \in Shapes}

Fresh(F) == [F |-> F, prev |-> "none", orig |-> EmptyArray]

\* What the sequential caller passes to routine op: a fresh array, or, for
\* the matrix family, the array the opposite routine returned in the call
\* before (a round trip)
Inputs(op) ==
    {Fresh(F) : F \in FreshArrays}
    \cup (IF calls[1].st = "returned" /\ calls[1].prev = "none"
             /\ self["method"] \in MDHT_methods
             /\ calls[1].op \in {"transform", "inverse_transform"} \ {op}
          THEN {[F |-> calls[1].x, prev |-> calls[1].op, orig |-> calls[1].arg0]}
          ELSE {})

---------------------------------------------------------------------------
(* The sequential program: one caller, every call run to its end *)

Init ==
    /\ cuda_installed \in BOOLEAN
    /\ seed \in Seeds
    /\ args \in ArgSpace
    /\ phase = "new"
    /\ error = "none"
    /\ self = NoAttrs
    /\ stream = <<>>
    /\ calls = [t \in Threads |-> IdleFrame]

\* DHT(p, N, rmax, method, use_cuda, **kw)
Construct ==
    /\ phase = "new"
    /\ \E res \in {DHT_init(seed, args, cuda_installed)} :
           /\ phase' = IF res.err = "none" THEN "constructed" ELSE "raised"
           /\ error' = res.err
           /\ self' = res.attrs
    /\ UNCHANGED <<cuda_installed, seed, args, stream, calls>>

CallAlone(op, prog) ==
    /\ phase = "constructed"
    /\ \E inp \in Inputs(op) :
         \E res \in {RunAlone(self, [NewFrame(op, prog, inp.F) EXCEPT
                                         !.prev = inp.prev, !.orig = inp.orig])} :
             /\ calls' = [calls EXCEPT ![1] = res.frame]
             /\ self' = res.attrs
    /\ UNCHANGED <<cuda_installed, seed, args, phase, error, stream>>

Transform == CallAlone("transform", transform(self))

InverseTransform == CallAlone("inverse_transform", inverse_transform(self))

\* get_r / get_nu: return( self.r ), return( self.nu )
Getter(op, attr) ==
    /\ phase = "constructed"
    /\ LET f0 == NewFrame(op, <<>>, EmptyArray)
       IN  calls' = [calls EXCEPT ![1] =
              IF attr \in DOMAIN self
              THEN [f0 EXCEPT !.st = "returned", !.alias = FALSE,
                              !.x = [shape |-> <<Len(self[attr])>>, data |-> <<self[attr]>>]]
              ELSE Fail(f0, "AttributeError")]
    /\ UNCHANGED <<cuda_installed, seed, args, phase, error, self, stream>>

GetR == Getter("get_r", "r")

GetNu == Getter("get_nu", "nu")

Next == Construct \/ Transform \/ InverseTransform \/ GetR \/ GetNu

Spec == Init /\ [][Next]_vars

---------------------------------------------------------------------------
(* The concurrent program: several callers on one instance, their calls    *)
(* interleaved statement by statement, and the device working through the  *)
(* multiplies of self.cuda_stream in the order they were issued            *)

ConcArgSpace ==
    {a \in ArgSpace : a.p = 0 /\ a.N = MaxN /\ a.d = Rat(1, 2)}

ConcInputs == {Filled(<<args.N>>), Filled(<<args.N + 1>>)}

ConcInit ==
    /\ cuda_installed \in BOOLEAN
    /\ seed = 1
    /\ args \in ConcArgSpace
    /\ phase = "new"
    /\ error = "none"
    /\ self = NoAttrs
    /\ stream = <<>>
    /\ calls = [t \in Threads |-> IdleFrame]

Running(t) == phase = "constructed" /\ calls[t].st = "running"

Kind(t) == calls[t].prog[calls[t].pc].kind

\* Caller t enters transform or inverse_transform
ConcCall(t) ==
    /\ phase = "constructed"
    /\ calls[t].st # "running"
    /\ \E F \in ConcInputs :
         \/ calls' = [calls EXCEPT ![t] = NewFrame("transform", transform(self), F)]
         \/ calls' = [calls EXCEPT ![t] =
                         NewFrame("inverse_transform", inverse_transform(self), F)]
    /\ UNCHANGED <<cuda_installed, seed, args, phase, error, self, stream>>

\* Caller t executes its next host statement
ConcStep(t) ==
    /\ Running(t)
    /\ Kind(t) \notin {"cuda_dot", "synchronize"}
    /\ \E res \in {Exec(self, calls[t])} :
         /\ calls' = [calls EXCEPT ![t] = res.frame]
         /\ self' = res.attrs
    /\ UNCHANGED <<cuda_installed, seed, args, phase, error, stream>>

\* Caller t executes self.cuda_stream.dot( F, self.M ): the multiply is queued
ConcIssue(t) ==
    /\ Running(t)
    /\ Kind(t) = "cuda_dot"
    /\ \E res \in {Exec(self, calls[t])} :
         /\ calls' = [calls EXCEPT ![t] = res.frame]
         /\ self' = res.attrs
         /\ stream' = IF res.frame.dev = "pending" THEN Append(stream, t) ELSE stream
    /\ UNCHANGED <<cuda_installed, seed, args, phase, error>>

\* The device completes the oldest queued multiply
DeviceComplete ==
    /\ stream # <<>>
    /\ calls' = [calls EXCEPT ![Head(stream)] = DeviceFinish(self, calls[Head(stream)])]
    /\ stream' = Tail(stream)
    /\ UNCHANGED <<cuda_installed, seed, args, phase, error, self>>

\* self.cuda_stream.synchronize() returns to caller t once its multiply is done
ConcSynchronize(t) ==
    /\ Running(t)
    /\ Kind(t) = "synchronize"
    /\ t \notin Range(stream)
    /\ \E res \in {Exec(self, calls[t])} :
         /\ calls' = [calls EXCEPT ![t] = res.frame]
         /\ self' = res.attrs
    /\ UNCHANGED <<cuda_installed, seed, args, phase, error, stream>>

ConcNext ==
    \/ Construct
    \/ DeviceComplete
    \/ \E t \in Threads :
         ConcCall(t) \/ ConcStep(t) \/ ConcIssue(t) \/ ConcSynchronize(t)

SpecConc == ConcInit /\ [][ConcNext]_vars

---------------------------------------------------------------------------
(* Properties of the constructor *)

Constructed == phase = "constructed"

IsMDHT == Constructed /\ self["method"] \in MDHT_methods

\* The caller's last finished call of transform or inverse_transform
Finished(t) ==
    /\ Constructed
    /\ calls[t].op \in {"transform", "inverse_transform"}
    /\ calls[t].st \in {"returned", "raised"}

\* C1: constructing with method 'FHT' passes the method-validity check and
\* runs FHT_init, which sets r, nu and the length-2N kernel fft_j_convol, and
\* later calls run FHT_transform / FHT_inverse_transform
C1_FHTAccepted ==
    (args.method = "FHT" /\ phase # "new") =>
        /\ phase = "constructed"
        /\ {"r", "nu", "fft_j_convol"} \subseteq DOMAIN self
        /\ Len(self["fft_j_convol"]) = 2 * args.N
        /\ \A t \in Threads :
              /\ calls[t].op = "transform" => calls[t].prog = FHT_transform
              /\ calls[t].op = "inverse_transform" => calls[t].prog = FHT_inverse_transform

\* C2: a method string that is not in available_methods makes the
\* constructor raise ValueError before any other step: no cuda stream is
\* created, no init routine runs and no attribute is set on the instance
C2_UnknownMethodRejectedFirst ==
    (args.method \notin available_methods /\ phase # "new") =>
        /\ phase = "raised"
        /\ error = "ValueError"
        /\ DOMAIN self = {}

C2_Witness ==
    /\ phase = "raised"
    /\ args.method = "bogus"
    /\ args.use_cuda /\ cuda_installed
    /\ self = NoAttrs

\* C3: an MDHT constructed with Fw neither 'inverse' nor 'symmetric' raises
\* ValueError in the constructor before any grid or matrix is computed, so
\* no instance has invM without M and no transform fails for a missing M
C3_InvalidFwRejected ==
    /\ (args.method \in MDHT_methods /\ args.Fw \notin {"inverse", "symmetric"}
           /\ phase # "new") =>
          (phase = "raised" /\ error = "ValueError"
             /\ DOMAIN self \cap {"r", "nu", "invM", "M"} = {})
    /\ Constructed => ("invM" \in DOMAIN self => "M" \in DOMAIN self)
    /\ \A t \in Threads : calls[t].err # "AttributeError"

---------------------------------------------------------------------------
(* Properties of the operator pair of the matrix family *)

BuiltInverse == IsMDHT /\ self["Fw"] = "inverse"

IdentityLessFirstRow(n) == [Identity(n) EXCEPT ![1] = ZeroVec(n)]

---------------------------------------------------------------------------
(* Properties of the transform calls *)

TransformAxisFits(t) == Last(calls[t].arg0.shape) = self["N"]

\* C5: for every constructed method, a transform or inverse_transform call
\* on an array of any rank whose last axis has length N returns an array of
\* exactly the shape of its argument
C5_ShapePreserved ==
    \A t \in Threads :
        (Finished(t) /\ TransformAxisFits(t)) =>
            /\ calls[t].st = "returned"
            /\ calls[t].x.shape = calls[t].arg0.shape

\* C6: for every constructed method, a transform or inverse_transform call
\* on an array whose last axis has a length other than N, length 1
\* included, fails and yields no output array
C6_WrongLengthFails ==
    \A t \in Threads :
        (Finished(t) /\ ~TransformAxisFits(t)) => calls[t].st = "raised"

\* What get_r and get_nu return is the grid of the instance
GetterReturnsGrid(t) ==
    /\ (calls[t].op = "get_r" /\ calls[t].st = "returned") =>
           calls[t].x.data = <<self["r"]>>
    /\ (calls[t].op = "get_nu" /\ calls[t].st = "returned") =>
           calls[t].x.data = <<self["nu"]>>

\* C7: after construction no call of transform, inverse_transform, get_r or
\* get_nu changes any attribute of the instance or the caller's array, and
\* get_r / get_nu return the grids as the constructor left them
C7_CallsLeaveInstanceAndArgument ==
    /\ [](\A t \in Threads : calls[t].arg = calls[t].arg0 /\ GetterReturnsGrid(t))
    /\ [][Constructed => self' = self]_vars

C7_Witness ==
    /\ Constructed
    /\ self["method"] = "QDHT"
    /\ calls[1].op = "transform"
    /\ calls[1].st = "returned"
    /\ Len(calls[1].arg0.shape) = MaxRank
    /\ calls[1].x # calls[1].arg0
    /\ calls[1].arg = calls[1].arg0

---------------------------------------------------------------------------
(* Properties of the accelerator path *)

Unavailable == args.use_cuda /\ ~cuda_installed

UsesDevice(f) ==
    \/ f.dev # "none"
    \/ \E i \in 1..Len(f.prog) : f.prog[i].kind \in {"cuda_dot", "synchronize"}

\* The matrix a routine of the matrix family multiplies by
MatrixOf(op) == IF op = "transform" THEN "M" ELSE "invM"

\* C9: with use_cuda requested and cuda not installed the constructor does
\* not fail for it, self.use_cuda is False, no stream is created, and every
\* later call takes the CPU product and never uses a device stream
C9_FallsBackToCPU ==
    Unavailable =>
        /\ phase = "raised" => error = DHT_init(seed, [args EXCEPT !.use_cuda = FALSE],
                                                cuda_installed).err
        /\ Constructed =>
              /\ self["use_cuda"] = FALSE
              /\ "cuda_stream" \notin DOMAIN self
              /\ stream = <<>>
              /\ \A t \in Threads :
                    /\ ~UsesDevice(calls[t])
                    /\ (Finished(t) /\ IsMDHT /\ calls[t].st = "returned") =>
                          calls[t].x = np_dot(calls[t].arg0, self[MatrixOf(calls[t].op)]).r

C9_Witness ==
    /\ Unavailable
    /\ IsMDHT
    /\ calls[1].op = "transform"
    /\ calls[1].st = "returned"
    /\ calls[1].x = np_dot(calls[1].arg0, self["M"]).r
    /\ calls[1].x # calls[1].arg0

---------------------------------------------------------------------------
(* Properties of the concurrent program *)

OnDevicePath == IsMDHT /\ self["use_cuda"]

\* C8: with use_cuda in effect a call of MDHT_transform or
\* MDHT_inverse_transform returns only after it issued the device multiply
\* and the multiply completed: no call has returned while its multiply is
\* pending, so a multiply that never completes keeps its call from returning
C8_ReturnsAfterBarrier ==
    \A t \in Threads :
        (OnDevicePath /\ Finished(t) /\ calls[t].st = "returned") =>
            /\ calls[t].dev = "complete"
            /\ t \notin Range(stream)
            /\ calls[t].x = np_dot(calls[t].arg0, self[MatrixOf(calls[t].op)]).r

C8_Witness ==
    /\ OnDevicePath
    /\ \E t \in Threads, u \in Threads :
          /\ calls[t].st = "returned"
          /\ calls[t].dev = "complete"
          /\ calls[u].st = "running"
          /\ calls[u].dev = "pending"
          /\ u \in Range(stream)

\* The result of the call of frame f when no other caller runs
Alone(f) == RunAlone(self, NewFrame(f.op, f.prog, f.arg0)).frame

\* C10: under every interleaving no step of a call writes the instance or
\* the array of a caller, and every finished call has the result, or the
\* exception, it has when run alone
C10_ConcurrentCallsIndependent ==
    /\ [](\A t \in Threads :
             /\ calls[t].arg = calls[t].arg0
             /\ Finished(t) =>
                   /\ calls[t].st = Alone(calls[t]).st
                   /\ calls[t].err = Alone(calls[t]).err
                   /\ calls[t].x = Alone(calls[t]).x)
    /\ [][Constructed => self' = self]_vars

C10_Witness ==
    /\ Constructed
    /\ \E t \in Threads, u \in Threads :
          /\ calls[t].st = "returned"
          /\ calls[t].x # calls[t].arg0
          /\ calls[u].st = "running"
          /\ calls[u].pc > 1
          /\ calls[u].op # calls[t].op

---------------------------------------------------------------------------
(* Properties of the grid and operator construction of the matrix family *)

\* MDHT_init got as far as its grids
HasGrids == self # NoAttrs /\ self["method"] \in MDHT_methods /\ "nu" \in DOMAIN self

\* self.nu of the zero sequence alphas
NuOf(alphas) ==
    [i \in 1..Len(alphas) |->
        RDiv(alphas[i], RMul(RInt(2), RMul(Pi, self["rmax"])))]

\* self.nu is built from 0 followed by the first N-1 positive zeros of J_m
ZeroPrepended == self["nu"] = NuOf(<<Zero>> \o JnZeros(self["m"], self["N"] - 1))

\* self.nu is built from the first N positive zeros of J_m
PositiveZerosOnly == self["nu"] = NuOf(JnZeros(self["m"], self["N"]))

\* C11 as stated: 0 is prepended to the zero sequence (alphas[0] = 0 and
\* nu[0] = 0, then the first N-1 positive zeros) exactly when m = p+1 or
\* m = p-1; when m = p the sequence is the first N positive zeros
C11_ZeroPrependedForNeighbours ==
    HasGrids =>
        IF self["m"] \in {self["p"] - 1, self["p"] + 1}
        THEN ZeroPrepended /\ self["nu"][1] = Zero
        ELSE PositiveZerosOnly /\ self["nu"][1] # Zero

\* C11 amended: 0 is prepended exactly when the auxiliary order m itself is
\* -1 or 1, whatever p is; for every other m the sequence is the first N
\* positive zeros
C11_ZeroPrependedForUnitOrder ==
    HasGrids =>
        IF self["m"] \in {-1, 1}
        THEN ZeroPrepended /\ self["nu"][1] = Zero
        ELSE PositiveZerosOnly /\ self["nu"][1] # Zero

C11_Witness ==
    /\ HasGrids
    /\ phase = "constructed"
    /\ self["m"] = 1
    /\ self["p"] = 1
    /\ self["N"] = MaxN
    /\ ZeroPrepended
    /\ self["nu"][1] = Zero
    /\ self["nu"][MaxN] # Zero

---------------------------------------------------------------------------
(* The operator pair recomputed from the grids of the instance *)

\* The zero alpha_i the frequency nu_i was computed from
AlphaOf(nu_i) == RMul(nu_i, RMul(RInt(2), RMul(Pi, self["rmax"])))

\* The N+1-th entry of the zero sequence (last_alpha)
LastAlpha ==
    IF self["nu"][1] = Zero
    THEN JnZeros(self["m"], self["N"])[self["N"]]
    ELSE JnZeros(self["m"], self["N"] + 1)[self["N"] + 1]

\* jn( p, 2*pi*r*nu_i ) along r
NumRow(nu_i) ==
    [j \in 1..self["N"] |->
        Jn(seed, self["p"], RMul(RMul(RInt(2), Pi), RMul(self["r"][j], nu_i)))]

\* pi * rmax**2 * jn( p_denom, alpha )**2
DenAt(alpha) ==
    RMul(RMul(Pi, RSq(self["rmax"])), RSq(Jn(seed, P_denom(self["p"], self["m"]), alpha)))

\* The denominator of row i after `if denom[0] == 0 and np.all(num[0,:] == 0)'
DenGuarded(i) ==
    IF i = 1 /\ DenAt(AlphaOf(self["nu"][1])) = Zero
             /\ NumRow(self["nu"][1]) = ZeroVec(self["N"])
    THEN One
    ELSE DenAt(AlphaOf(self["nu"][i]))

RowOver(row, den) == [j \in 1..Len(row) |-> RDiv(row[j], den)]

\* invM as first computed
FirstInvM ==
    [i \in 1..self["N"] |-> RowOver(NumRow(self["nu"][i]), DenGuarded(i))]

\* The row of the additional Bessel zero last_alpha
AdditionalRow ==
    RowOver(NumRow(RDiv(LastAlpha, RMul(RInt(2), RMul(Pi, self["rmax"])))),
            DenAt(LastAlpha))

\* The first-row correction was applied: M inverts invM with the additional
\* row in front, and invM has its first row back at 0
CorrectionApplied ==
    /\ self["M"] = LinalgInv([FirstInvM EXCEPT ![1] = AdditionalRow])
    /\ self["invM"] = [FirstInvM EXCEPT ![1] = ZeroVec(self["N"])]

\* M is the inverse of invM as first computed, and invM is left as it was
DirectInverse ==
    /\ self["M"] = LinalgInv(FirstInvM)
    /\ self["invM"] = FirstInvM

\* C12 as stated: with Fw = 'inverse' the first-row correction is applied
\* exactly when m = p-1 or m = p+1 and p # 0; in every other case M is the
\* direct inverse of the unmodified invM
C12_CorrectionForNeighbours ==
    BuiltInverse =>
        IF self["m"] \in {self["p"] - 1, self["p"] + 1} /\ self["p"] # 0
        THEN CorrectionApplied
        ELSE DirectInverse

\* C12 amended: with Fw = 'inverse' the first-row correction is applied
\* exactly when m is -1 or 1 and p # 0; in every other case M is the direct
\* inverse of the unmodified invM and invM is left as first computed
C12_CorrectionForUnitOrder ==
    BuiltInverse =>
        IF self["m"] \in {-1, 1} /\ self["p"] # 0
        THEN CorrectionApplied
        ELSE DirectInverse

C12_Witness ==
    /\ BuiltInverse
    /\ self["m"] = 1
    /\ self["p"] = 2
    /\ self["N"] = MaxN
    /\ CorrectionApplied
    /\ FirstInvM[1] = ZeroVec(MaxN)
    /\ AdditionalRow # ZeroVec(MaxN)

---------------------------------------------------------------------------
(* Degenerate rows *)

\* MDHT_init ran its Fw == 'inverse' branch
InverseBranchRan ==
    /\ phase # "new"
    /\ args.method \in MDHT_methods
    /\ args.Fw = "inverse"

\* The matrix handed to np.linalg.inv
HandedToInversion ==
    IF self["m"] \in include_0 /\ self["p"] # 0
    THEN [FirstInvM EXCEPT ![1] = AdditionalRow]
    ELSE FirstInvM

\* No denominator is zero after the guard, in the first computation and in
\* the corrected one
DenominatorsNonZero ==
    /\ \A i \in 1..self["N"] : DenGuarded(i) # Zero
    /\ (self["m"] \in include_0 /\ self["p"] # 0) => DenAt(LastAlpha) # Zero

FirstRowNotZero == HandedToInversion[1] # ZeroVec(self["N"])

\* C13: for every p >= 0 and each matrix-family variant with Fw = 'inverse'
\* no denominator is zero after the 0/0 guard, the matrix handed to the
\* inversion has no identically zero first row, and the constructor does not
\* raise: M exists and its first row is finite
C13_NoDegenerateRow ==
    InverseBranchRan =>
        /\ DenominatorsNonZero
        /\ FirstRowNotZero
        /\ phase = "constructed"
        /\ \A j \in 1..self["N"] : IsFinite(self["M"][1][j])

=============================================================================
